---- MODULE Spec2Model ----
(***************************************************************************)
(* Circulation ledger of notlath/libraryms (src/app.py): the tables books  *)
(* and transactions behind the storage client, and the operations of       *)
(* LibraryManagementSystem that read and write them.                       *)
(*                                                                         *)
(* Time is a clock of ticks: datetime.now() returns the clock value, the   *)
(* clock may advance between any two readings, and timedelta(days = d) is  *)
(* d * TicksPerDay ticks.                                                  *)
(***************************************************************************)
EXTENDS Integers, Sequences, FiniteSets, TLC

\* ------------------------------------------------------------------ bounds
MaxReviews == 1      \* rows of table reviews
MaxBooks == 2        \* add_book calls (book ids 1..MaxBooks)
MaxCopies == 1       \* copies given to add_book / update_book
MaxTxns == 2         \* rows of the transactions table
MaxTime == 2         \* clock values 1..MaxTime
NumProcs == 2        \* concurrent callers (request threads)
TicksPerDay == 2     \* resolution of the clock

\* --------------------------------------------------------------- constants
DefaultDays == 14    \* borrow_book(..., days=14)
NULL == 0            \* "return_date": None
CompoundScale == 100 \* sentiment_scores["compound"] in [-1, 1], in hundredths
PositiveAbove == 5   \* sentiment_scores["compound"] > 0.05
NegativeBelow == -5  \* sentiment_scores["compound"] < -0.05

\* the days borrow_book is given: the route never passes days
LoanDays == {DefaultDays}
BookIds == 1..MaxBooks
\* the borrower ids borrow_book is given; it stores the id and reads nothing of it
BorrowerIds == {1}
TxnIds == 1..MaxTxns
Procs == 1..NumProcs
\* the compound scores polarity_scores can give a review text
Compounds == (-CompoundScale)..CompoundScale
\* one score, for the specifications that are not about labels
FewCompounds == {PositiveAbove}

MsgNoCopies == "No copies available"
MsgBorrowed == "Book borrowed successfully. Due date: "
MsgInvalidTxn == "Invalid transaction or book already returned"
MsgReturned == "Book returned successfully"
MsgBorrowError == "Error processing borrowing"
MsgReturnError == "Error processing return"
MsgReviewError == "Error adding review"
MsgReviewAdded(sentiment) == "Review added with " \o sentiment \o " sentiment"

VARIABLES
    books,         \* table books: id -> [copies, available]
    book_seq,      \* next identifier the store assigns to a row of books
    transactions,  \* table transactions: id (position) -> row
    now,           \* the clock
    ret,           \* the last call run as a whole: its arguments and result
    calls,         \* per caller: the frame of its call in flight (locals, position)
    borrowers,     \* table borrowers: the ids of its rows
    reviews,       \* table reviews: id (position) -> row
    search         \* search_books: the text columns of books, the query, the result

vars == <<books, book_seq, transactions, now, ret, calls, borrowers, reviews, search>>

\* what the circulation operations neither read nor write
rest == <<borrowers, reviews, search>>

\* ------------------------------------------------------- storage requests
\* .select("available").eq("id", book_id).execute().data
SelectAvailable(bks, book_id) ==
    IF book_id \in DOMAIN bks
    THEN <<[available |-> bks[book_id].available]>>
    ELSE <<>>

\* .select("book_id, borrower_id, return_date").eq("id", transaction_id).execute().data
SelectTransaction(txns, transaction_id) ==
    IF transaction_id \in DOMAIN txns
    THEN <<[book_id |-> txns[transaction_id].book_id,
            borrower_id |-> txns[transaction_id].borrower_id,
            return_date |-> txns[transaction_id].return_date]>>
    ELSE <<>>

\* the insert with every copy out: available = 0
InsertBook_NoneAvailable(bks, id, copies) ==
    [i \in DOMAIN bks \cup {id} |->
        IF i = id THEN [copies |-> copies, available |-> 0] ELSE bks[i]]

\* .insert({"title": ..., "copies": copies, "available": copies})
InsertBook(bks, id, copies) ==
    [i \in DOMAIN bks \cup {id} |->
        IF i = id THEN [copies |-> copies, available |-> copies] ELSE bks[i]]

\* the rows of a table as the store returns them: each with its id, in id order
Rows(txns) == [i \in DOMAIN txns |-> [id |-> i] @@ txns[i]]

\* the select without its filter on return_date
SelectActive_NoFilter(txns) == Rows(txns)

\* .select("*").is_("return_date", "null")
SelectActive(txns) == SelectSeq(Rows(txns), LAMBDA row : row.return_date = NULL)

\* a delete without the filter on id
DeleteRow_AllRows(bks, book_id) == [i \in {} |-> bks[i]]

\* .delete().eq("id", book_id): the row is removed, no other table is touched
DeleteRow(bks, book_id) == [i \in DOMAIN bks \ {book_id} |-> bks[i]]

\* .update({"available": v}).eq("id", book_id): no row, no change
UpdateAvailable(bks, book_id, v) ==
    IF book_id \in DOMAIN bks
    THEN [bks EXCEPT ![book_id].available = v]
    ELSE bks

\* .update(kwargs).eq("id", book_id): the columns named by the patch
UpdateRow(bks, book_id, patch) ==
    IF book_id \in DOMAIN bks
    THEN [bks EXCEPT ![book_id] =
             [f \in DOMAIN @ |-> IF f \in DOMAIN patch THEN patch[f] ELSE @[f]]]
    ELSE bks

\* the row borrow_book inserts into transactions
NewTransaction(book_id, borrower_id, borrow_date, due_date) ==
    [book_id |-> book_id, borrower_id |-> borrower_id,
     borrow_date |-> borrow_date, due_date |-> due_date, return_date |-> NULL]

\* the update of return_date left out
SetReturnDate_Unset(txns, transaction_id, t) == txns

\* .update({"return_date": t}).eq("id", transaction_id)
SetReturnDate(txns, transaction_id, t) ==
    IF transaction_id \in DOMAIN txns
    THEN [txns EXCEPT ![transaction_id].return_date = t]
    ELSE txns

\* ------------------------------------------------------ decisions of the code
\* the check with "< 0" for "<= 0"
NoCopiesAvailable_OffByOne(data) ==
    Len(data) = 0 \/ data[1].available < 0

\* if not book_response.data or book_response.data[0]["available"] <= 0
NoCopiesAvailable(data) ==
    Len(data) = 0 \/ data[1].available <= 0

\* the decrement taken twice
BorrowedAvailable_Twice(available) == available - 2

\* {"available": book_response.data[0]["available"] - 1}
BorrowedAvailable(available) == available - 1

\* the check without its return_date half
InvalidOrReturned_NoDateCheck(data) ==
    Len(data) = 0

\* if not transaction_response.data or transaction_response.data[0]["return_date"]
InvalidOrReturned(data) ==
    Len(data) = 0 \/ data[1].return_date # NULL

\* the increment taken twice
ReturnedAvailable_Twice(available) == available + 2

\* {"available": book_response.data[0]["available"] + 1}
ReturnedAvailable(available) == available + 1

\* the label with both thresholds taken as inclusive
SentimentLabel_Inclusive(compound) ==
    IF compound >= PositiveAbove THEN "positive"
    ELSE IF compound <= NegativeBelow THEN "negative" ELSE "neutral"

\* the label add_review derives from the compound score
SentimentLabel(compound) ==
    IF compound > PositiveAbove THEN "positive"
    ELSE IF compound < NegativeBelow THEN "negative" ELSE "neutral"

\* the row add_review inserts; the text is kept as the score the analyzer gives it
NewReview(book_id, borrower_id, compound) ==
    [book_id |-> book_id, borrower_id |-> borrower_id,
     sentiment |-> SentimentLabel(compound), compound |-> compound]

\* datetime.now() + timedelta(days=days)
DueDate(t, days) == t + days * TicksPerDay

\* datetime.now(): the clock never runs backwards
ClockReadings == now..MaxTime

\* ------------------------------------------------------------ call results
\* what a call was given and what it returned: (success, message), or the new id
\* copies: the argument of add_book; data: the rows a query returned; failed: the storage request that raised (0: none);
\* raised: the exception left the operation
Result(op, book_id, borrower_id, days, transaction_id, ok, msg) ==
    [op |-> op, book_id |-> book_id, borrower_id |-> borrower_id, days |-> days,
     transaction_id |-> transaction_id, ok |-> ok, msg |-> msg,
     copies |-> 0, data |-> <<>>, failed |-> 0, raised |-> FALSE]

NoResult == Result("none", 0, 0, 0, 0, FALSE, "")

\* a caller's frame: the call's arguments, its position (pc), its locals
\* (available: book_response.data[0]["available"]; due_date), its result
Frame(op, pc, book_id, borrower_id, days, transaction_id, available, due_date, ok, msg) ==
    [op |-> op, pc |-> pc, book_id |-> book_id, borrower_id |-> borrower_id,
     days |-> days, transaction_id |-> transaction_id, available |-> available,
     due_date |-> due_date, ok |-> ok, msg |-> msg]

IdleFrame == Frame("none", "idle", 0, 0, 0, 0, 0, 0, FALSE, "")

\* search_books not called
NoSearch ==
    [catalog |-> <<>>, query |-> <<>>, search_type |-> "", results |-> <<>>, called |-> FALSE]

Init ==
    /\ books = <<>>
    /\ book_seq = 1
    /\ transactions = <<>>
    /\ now = 1
    /\ ret = NoResult
    /\ calls = [p \in Procs |-> IdleFrame]
    /\ borrowers = {}
    /\ reviews = <<>>
    /\ search = NoSearch

\* ------------------------------------------- operations, each run as a whole
\* add_book(title, author, isbn, genre, copies): one insert
AddBook(copies) ==
    /\ book_seq <= MaxBooks
    /\ books' = InsertBook(books, book_seq, copies)
    /\ book_seq' = book_seq + 1
    /\ ret' = [Result("add_book", book_seq, 0, 0, 0, TRUE, "") EXCEPT !.copies = copies]
    /\ UNCHANGED <<rest, transactions, now, calls>>

\* borrow_book(book_id, borrower_id, days)
BorrowBook(book_id, borrower_id, days) ==
    LET book_response == SelectAvailable(books, book_id) IN
    IF NoCopiesAvailable(book_response)
    THEN /\ ret' = Result("borrow_book", book_id, borrower_id, days, 0,
                          FALSE, MsgNoCopies)
         /\ UNCHANGED <<rest, books, book_seq, transactions, now, calls>>
    ELSE /\ Len(transactions) < MaxTxns
         /\ \E t1 \in ClockReadings : \E t2 \in t1..MaxTime :
              LET due_date == DueDate(t1, days) IN
              /\ transactions' = Append(transactions,
                     NewTransaction(book_id, borrower_id, t2, due_date))
              /\ books' = UpdateAvailable(books, book_id,
                     BorrowedAvailable(book_response[1].available))
              /\ now' = t2
              /\ ret' = Result("borrow_book", book_id, borrower_id, days,
                               Len(transactions) + 1, TRUE, MsgBorrowed)
         /\ UNCHANGED <<rest, book_seq, calls>>

\* return_book(transaction_id)
ReturnBook(transaction_id) ==
    LET transaction_response == SelectTransaction(transactions, transaction_id) IN
    IF InvalidOrReturned(transaction_response)
    THEN /\ ret' = Result("return_book", 0, 0, 0, transaction_id,
                          FALSE, MsgInvalidTxn)
         /\ UNCHANGED <<rest, books, book_seq, transactions, now, calls>>
    ELSE LET transaction == transaction_response[1]
             book_response == SelectAvailable(books, transaction.book_id) IN
         /\ \E t \in ClockReadings :
              /\ transactions' = SetReturnDate(transactions, transaction_id, t)
              /\ now' = t
         /\ books' = IF Len(book_response) > 0
                     THEN UpdateAvailable(books, transaction.book_id,
                              ReturnedAvailable(book_response[1].available))
                     ELSE books
         /\ ret' = Result("return_book", transaction.book_id, 0, 0, transaction_id,
                          TRUE, MsgReturned)
         /\ UNCHANGED <<rest, book_seq, calls>>

\* update_book(book_id, **kwargs): len(response.data) > 0
UpdateBook(book_id, patch) ==
    /\ books' = UpdateRow(books, book_id, patch)
    /\ ret' = Result("update_book", book_id, 0, 0, 0, book_id \in DOMAIN books, "")
    /\ UNCHANGED <<rest, book_seq, transactions, now, calls>>

\* the patches update_book is given: values for copies, for available, or for both
Patches ==
    UNION {[F -> 0..MaxCopies] : F \in (SUBSET {"copies", "available"}) \ {{}}}

AddBookCall == \E copies \in 0..MaxCopies : AddBook(copies)
BorrowBookCall ==
    \E book_id \in BookIds, borrower_id \in BorrowerIds, days \in LoanDays :
        BorrowBook(book_id, borrower_id, days)
ReturnBookCall == \E transaction_id \in TxnIds : ReturnBook(transaction_id)

\* calls run one at a time: add_book, borrow_book, return_book
NextSeq == AddBookCall \/ BorrowBookCall \/ ReturnBookCall

SpecSeq == Init /\ [][NextSeq]_vars

\* the add_book route: copies = int(request.form["copies"]), any integer
AddBookAnyCall == \E copies \in -1..MaxCopies : AddBook(copies)

\* calls run one at a time, add_book with any integer for copies
NextIntake == AddBookAnyCall \/ BorrowBookCall \/ ReturnBookCall

SpecIntake == Init /\ [][NextIntake]_vars

\* get_active_transactions(): one select, its rows returned as they come
GetActiveTransactions ==
    /\ ret' = [Result("get_active_transactions", 0, 0, 0, 0, TRUE, "")
                  EXCEPT !.data = SelectActive(transactions)]
    /\ UNCHANGED <<rest, books, book_seq, transactions, now, calls>>

\* calls run one at a time, get_active_transactions among them
NextQuery == AddBookCall \/ BorrowBookCall \/ ReturnBookCall \/ GetActiveTransactions

SpecQuery == Init /\ [][NextQuery]_vars

\* add_borrower(name, email, phone): one insert, the store assigns the id
AddBorrower ==
    /\ Cardinality(borrowers) < Cardinality(BorrowerIds)
    /\ borrowers' = borrowers \cup {Cardinality(borrowers) + 1}
    /\ ret' = Result("add_borrower", 0, Cardinality(borrowers) + 1, 0, 0, TRUE, "")
    /\ UNCHANGED <<books, book_seq, transactions, now, calls, reviews, search>>

\* calls run one at a time, add_borrower among them
NextRefs == AddBookCall \/ AddBorrower \/ BorrowBookCall \/ ReturnBookCall

SpecRefs == Init /\ [][NextRefs]_vars

\* delete_book(book_id): one delete; True iff the store returned a deleted row
DeleteBook(book_id) ==
    LET deleted == book_id \in DOMAIN books IN
    /\ books' = DeleteRow(books, book_id)
    /\ ret' = Result("delete_book", book_id, 0, 0, 0, deleted, "")
    /\ UNCHANGED <<rest, book_seq, transactions, now, calls>>

DeleteBookCall == \E book_id \in BookIds : DeleteBook(book_id)

\* add_review(book_id, borrower_id, review_text, rating): label, then one insert
AddReview(book_id, borrower_id, compound) ==
    /\ Len(reviews) < MaxReviews
    /\ reviews' = Append(reviews, NewReview(book_id, borrower_id, compound))
    /\ ret' = Result("add_review", book_id, borrower_id, 0, 0,
                     TRUE, MsgReviewAdded(SentimentLabel(compound)))
    /\ UNCHANGED <<books, book_seq, transactions, now, calls, borrowers, search>>

AddReviewOf(scores) ==
    \E book_id \in BookIds, borrower_id \in BorrowerIds, compound \in scores :
        AddReview(book_id, borrower_id, compound)

\* add_review on texts of every compound score
NextSentiment == AddReviewOf(Compounds)

SpecSentiment == Init /\ [][NextSentiment]_vars

\* calls run one at a time, delete_book and add_review among them; every transaction
\* stays open (delete_book reads no transaction)
NextShelf ==
    \/ AddBookCall
    \/ BorrowBookCall
    \/ DeleteBookCall
    \/ AddReviewOf(FewCompounds)

SpecShelf == Init /\ [][NextShelf]_vars

\* calls run one at a time, delete_book and return_book among them
NextDangling == AddBookCall \/ BorrowBookCall \/ DeleteBookCall \/ ReturnBookCall

SpecDangling == Init /\ [][NextDangling]_vars

\* ------------------------------------------------------- storage failures
\* A storage request that fails raises in .execute() and leaves the table as it was.

\* the storage requests an operation issues at most, in program order
Requests ==
    [add_book |-> 1, update_book |-> 1, delete_book |-> 1, add_review |-> 1,
     borrow_book |-> 3, return_book |-> 4]

\* a try block that ends after the operation's first request
InTry_FirstOnly(op, k) == k = 1

\* request k of op lies inside the try block of op
InTry(op, k) == k \in 1..Requests[op]

\* what the caller gets when request k raises: the except branch's value, or the
\* exception itself where no try block covers the request
Failure(op, k, msg) ==
    IF InTry(op, k)
    THEN [Result(op, NULL, 0, 0, 0, FALSE, msg) EXCEPT !.failed = k]
    ELSE [Result(op, NULL, 0, 0, 0, FALSE, "") EXCEPT !.failed = k, !.raised = TRUE]

\* add_book: the insert raises; return None
AddBookFails(copies) ==
    /\ ret' = Failure("add_book", 1, "")
    /\ UNCHANGED <<rest, books, book_seq, transactions, now, calls>>

\* update_book: the update raises; return False
UpdateBookFails(book_id, patch) ==
    /\ ret' = Failure("update_book", 1, "")
    /\ UNCHANGED <<rest, books, book_seq, transactions, now, calls>>

\* delete_book: the delete raises; return False
DeleteBookFails(book_id) ==
    /\ ret' = Failure("delete_book", 1, "")
    /\ UNCHANGED <<rest, books, book_seq, transactions, now, calls>>

\* add_review: the insert raises
AddReviewFails(book_id, borrower_id, compound) ==
    /\ ret' = Failure("add_review", 1, MsgReviewError)
    /\ UNCHANGED <<rest, books, book_seq, transactions, now, calls>>

\* borrow_book: request k raises (1: select, 2: insert, 3: update of available);
\* the requests before k have taken effect
BorrowBookFails(book_id, borrower_id, days, k) ==
    LET book_response == SelectAvailable(books, book_id)
        failure == Failure("borrow_book", k, MsgBorrowError)
    IN
    /\ k \in 1..Requests["borrow_book"]
    /\ k > 1 => ~NoCopiesAvailable(book_response)
    /\ IF k = 3
       THEN /\ Len(transactions) < MaxTxns
            /\ \E t1 \in ClockReadings : \E t2 \in t1..MaxTime :
                 /\ transactions' = Append(transactions,
                        NewTransaction(book_id, borrower_id, t2, DueDate(t1, days)))
                 /\ now' = t2
       ELSE UNCHANGED <<transactions, now>>
    /\ ret' = failure
    /\ UNCHANGED <<rest, books, book_seq, calls>>

\* return_book: request k raises (1: select, 2: update of return_date, 3: select of
\* the book, 4: update of available); the requests before k have taken effect
ReturnBookFails(transaction_id, k) ==
    LET transaction_response == SelectTransaction(transactions, transaction_id)
        book_id == IF Len(transaction_response) > 0
                   THEN transaction_response[1].book_id ELSE 0
        failure == Failure("return_book", k, MsgReturnError)
    IN
    /\ k \in 1..Requests["return_book"]
    /\ k > 1 => ~InvalidOrReturned(transaction_response)
    /\ k = 4 => Len(SelectAvailable(books, book_id)) > 0
    /\ IF k > 2
       THEN \E t \in ClockReadings :
                /\ transactions' = SetReturnDate(transactions, transaction_id, t)
                /\ now' = t
       ELSE UNCHANGED <<transactions, now>>
    /\ ret' = failure
    /\ UNCHANGED <<rest, books, book_seq, calls>>

AddBookFailsCall == \E copies \in 0..MaxCopies : AddBookFails(copies)
DeleteBookFailsCall == \E book_id \in BookIds : DeleteBookFails(book_id)
AddReviewFailsCall ==
    \E book_id \in BookIds, borrower_id \in BorrowerIds, compound \in FewCompounds :
        AddReviewFails(book_id, borrower_id, compound)
BorrowBookFailsCall ==
    \E book_id \in BookIds, borrower_id \in BorrowerIds, days \in LoanDays :
        \E k \in 1..Requests["borrow_book"] : BorrowBookFails(book_id, borrower_id, days, k)
ReturnBookFailsCall ==
    \E transaction_id \in TxnIds :
        \E k \in 1..Requests["return_book"] : ReturnBookFails(transaction_id, k)

UpdateBookCall == \E book_id \in BookIds, patch \in Patches : UpdateBook(book_id, patch)

\* calls run one at a time, update_book among them
NextLedger == AddBookCall \/ BorrowBookCall \/ ReturnBookCall \/ UpdateBookCall

SpecLedger == Init /\ [][NextLedger]_vars

\* one patch: the request raises before the store reads it
UpdateBookFailsCall ==
    \E book_id \in BookIds, patch \in {[available |-> 0]} : UpdateBookFails(book_id, patch)

\* calls run one at a time; any storage request of any call may fail
NextFail ==
    \/ AddBookCall
    \/ BorrowBookCall
    \/ ReturnBookCall
    \/ AddBookFailsCall
    \/ UpdateBookFailsCall
    \/ DeleteBookFailsCall
    \/ AddReviewFailsCall
    \/ BorrowBookFailsCall
    \/ ReturnBookFailsCall

SpecFail == Init /\ [][NextFail]_vars

\* no storage request has failed in the call before
NoFailureYet == ret.failed = 0

\* calls run one at a time up to the first call in which a storage request fails
NextFirstFail ==
    \/ NoFailureYet /\ AddBookCall
    \/ NoFailureYet /\ BorrowBookCall
    \/ NoFailureYet /\ ReturnBookCall
    \/ NoFailureYet /\ AddBookFailsCall
    \/ NoFailureYet /\ UpdateBookFailsCall
    \/ NoFailureYet /\ DeleteBookFailsCall
    \/ NoFailureYet /\ AddReviewFailsCall
    \/ NoFailureYet /\ BorrowBookFailsCall
    \/ NoFailureYet /\ ReturnBookFailsCall

SpecFirstFail == Init /\ [][NextFirstFail]_vars

\* ------------------------------------------------------------ search_books
\* A text is the sequence of its words as written. The words, and what lower(),
\* the removal of punctuation, the stop word list and the Porter stemmer make of them:
Lower(w) ==
    CASE w = "Dune" -> "dune"
      [] w = "The" -> "the"
      [] w = "Books" -> "books"
      [] w = "Herbert" -> "herbert"
      [] w = "Messiah" -> "messiah"
      [] OTHER -> w
StripPunctuation(w) == CASE w = "dune!" -> "dune" [] OTHER -> w
StopWords == {"the"}
Stem(w) == CASE w = "books" -> "book" [] OTHER -> w

\* the texts of the catalog columns and of the queries
TitleTexts == {<<"Dune">>, <<"The", "Books">>, <<"Dune", "Messiah">>}
AuthorTexts == {<<"Herbert">>, <<"the">>}
GenreTexts == {<<"books">>, <<"Dune">>}
Queries == {<<"dune!">>, <<"the">>, <<"book", "Herbert">>, <<"Dune", "messiah">>}
SearchTypes == {"title", "author", "genre", "all"}
CatalogRows == [title : TitleTexts, author : AuthorTexts, genre : GenreTexts]

\* preprocess_text(text): the list of tokens
PreprocessText(text) ==
    LET plain == [i \in DOMAIN text |-> StripPunctuation(Lower(text[i]))]
        kept == SelectSeq(plain, LAMBDA t : t \notin StopWords)
    IN [i \in DOMAIN kept |-> Stem(kept[i])]

\* set(self.preprocess_text(text))
TokenSet(text) == LET tokens == PreprocessText(text) IN {tokens[i] : i \in DOMAIN tokens}

\* " ".join(search_fields) for the search type
CombinedText(book, search_type) ==
    (IF search_type \in {"title", "all"} THEN book.title ELSE <<>>)
    \o (IF search_type \in {"author", "all"} THEN book.author ELSE <<>>)
    \o (IF search_type \in {"genre", "all"} THEN book.genre ELSE <<>>)

\* len(intersection) / len(union) as the fraction <<numerator, denominator>>;
\* 0 where the union is empty (the book is skipped)
Similarity(query_tokens, field_tokens) ==
    <<Cardinality(query_tokens \cap field_tokens),
      IF query_tokens \cup field_tokens = {} THEN 1
      ELSE Cardinality(query_tokens \cup field_tokens)>>

\* a > b for fractions with positive denominators
Greater(a, b) == a[1] * b[2] > b[1] * a[2]

\* the sort left out
SortBySimilarity_Unsorted(results) == results

\* results.sort(key=lambda x: x[1], reverse=True): stable, highest similarity first
RECURSIVE SortBySimilarity(_)
SortBySimilarity(results) ==
    IF results = <<>> THEN <<>>
    ELSE LET n == Len(results)
             sorted == SortBySimilarity(SubSeq(results, 1, n - 1))
             x == results[n]
             ahead == SelectSeq(sorted, LAMBDA y : ~Greater(x.similarity, y.similarity))
             behind == SelectSeq(sorted, LAMBDA y : Greater(x.similarity, y.similarity))
         IN ahead \o <<x>> \o behind

\* the (book_id, similarity) pairs search_books collects, in the order of the rows
Matches(catalog, query, search_type) ==
    LET scored == [i \in DOMAIN catalog |->
                      [book_id |-> i,
                       similarity |-> Similarity(TokenSet(query),
                                          TokenSet(CombinedText(catalog[i], search_type)))]]
    IN SelectSeq(scored, LAMBDA r : r.similarity[1] > 0)

\* the state search_books is called in: any catalog, query and search type
InitSearch ==
    /\ books = <<>>
    /\ book_seq = 1
    /\ transactions = <<>>
    /\ now = 1
    /\ ret = NoResult
    /\ calls = [p \in Procs |-> IdleFrame]
    /\ borrowers = {}
    /\ reviews = <<>>
    /\ \E n \in 0..MaxBooks : \E catalog \in [1..n -> CatalogRows] :
       \E query \in Queries, search_type \in SearchTypes :
           search = [catalog |-> catalog, query |-> query,
                     search_type |-> search_type, results |-> <<>>, called |-> FALSE]

\* search_books(query, search_type): the ids, best match first
SearchBooks ==
    /\ ~search.called
    /\ LET results == SortBySimilarity(
                          Matches(search.catalog, search.query, search.search_type))
       IN search' = [search EXCEPT
                        !.results = [i \in DOMAIN results |-> results[i].book_id],
                        !.called = TRUE]
    /\ UNCHANGED <<books, book_seq, transactions, now, ret, calls, borrowers, reviews>>

NextSearch == SearchBooks

SpecSearch == InitSearch /\ [][NextSearch]_vars

\* ------------------------------- operations, one storage request per step
Ready(p) == calls[p].pc \in {"idle", "done"}
Fresh(p) == calls[p].pc = "idle"

\* rows the borrow_book calls in flight are still to insert
PendingInserts == Cardinality({p \in Procs : calls[p].pc = "insert"})

\* borrow_book: select available, the check, due_date
BorrowSelect(p, book_id, borrower_id, days) ==
    LET book_response == SelectAvailable(books, book_id) IN
    IF NoCopiesAvailable(book_response)
    THEN /\ calls' = [calls EXCEPT ![p] =
                 Frame("borrow_book", "done", book_id, borrower_id, days, 0, 0, 0,
                       FALSE, MsgNoCopies)]
         /\ UNCHANGED <<rest, books, book_seq, transactions, now, ret>>
    ELSE /\ Len(transactions) + PendingInserts < MaxTxns
         /\ \E t1 \in ClockReadings :
              /\ calls' = [calls EXCEPT ![p] =
                     Frame("borrow_book", "insert", book_id, borrower_id, days, 0,
                           book_response[1].available, DueDate(t1, days), FALSE, "")]
              /\ now' = t1
         /\ UNCHANGED <<rest, books, book_seq, transactions, ret>>

\* borrow_book: insert the transaction
BorrowInsert(p) ==
    /\ calls[p].pc = "insert"
    /\ \E t2 \in ClockReadings :
         /\ transactions' = Append(transactions,
                NewTransaction(calls[p].book_id, calls[p].borrower_id, t2,
                               calls[p].due_date))
         /\ now' = t2
    /\ calls' = [calls EXCEPT ![p].pc = "update",
                              ![p].transaction_id = Len(transactions) + 1]
    /\ UNCHANGED <<rest, books, book_seq, ret>>

\* borrow_book: update available, return
BorrowUpdate(p) ==
    /\ calls[p].pc = "update"
    /\ books' = UpdateAvailable(books, calls[p].book_id,
                                BorrowedAvailable(calls[p].available))
    /\ calls' = [calls EXCEPT ![p] =
            Frame("borrow_book", "done", calls[p].book_id, calls[p].borrower_id,
                  calls[p].days, calls[p].transaction_id, 0, 0, TRUE, MsgBorrowed)]
    /\ UNCHANGED <<rest, book_seq, transactions, now, ret>>

\* return_book: select the transaction, the check
ReturnSelect(p, transaction_id) ==
    LET transaction_response == SelectTransaction(transactions, transaction_id) IN
    /\ calls' = [calls EXCEPT ![p] =
           IF InvalidOrReturned(transaction_response)
           THEN Frame("return_book", "done", 0, 0, 0, transaction_id, 0, 0,
                      FALSE, MsgInvalidTxn)
           ELSE Frame("return_book", "set_return_date",
                      transaction_response[1].book_id, 0, 0, transaction_id, 0, 0,
                      FALSE, "")]
    /\ UNCHANGED <<rest, books, book_seq, transactions, now, ret>>

\* return_book: update the transaction's return_date
ReturnSetDate(p) ==
    /\ calls[p].pc = "set_return_date"
    /\ \E t \in ClockReadings :
         /\ transactions' = SetReturnDate(transactions, calls[p].transaction_id, t)
         /\ now' = t
    /\ calls' = [calls EXCEPT ![p].pc = "select_book"]
    /\ UNCHANGED <<rest, books, book_seq, ret>>

\* return_book: select the book's available; no such book, return
ReturnSelectBook(p) ==
    LET book_response == SelectAvailable(books, calls[p].book_id) IN
    /\ calls[p].pc = "select_book"
    /\ calls' = [calls EXCEPT ![p] =
           IF Len(book_response) > 0
           THEN [calls[p] EXCEPT !.pc = "update_book",
                                 !.available = book_response[1].available]
           ELSE Frame("return_book", "done", calls[p].book_id, 0, 0,
                      calls[p].transaction_id, 0, 0, TRUE, MsgReturned)]
    /\ UNCHANGED <<rest, books, book_seq, transactions, now, ret>>

\* return_book: update available, return
ReturnUpdateBook(p) ==
    /\ calls[p].pc = "update_book"
    /\ books' = UpdateAvailable(books, calls[p].book_id,
                                ReturnedAvailable(calls[p].available))
    /\ calls' = [calls EXCEPT ![p] =
            Frame("return_book", "done", calls[p].book_id, 0, 0,
                  calls[p].transaction_id, 0, 0, TRUE, MsgReturned)]
    /\ UNCHANGED <<rest, book_seq, transactions, now, ret>>

BorrowStep(p) == BorrowInsert(p) \/ BorrowUpdate(p)
ReturnStep(p) == ReturnSetDate(p) \/ ReturnSelectBook(p) \/ ReturnUpdateBook(p)

BorrowInvoke(p) ==
    \E book_id \in BookIds, borrower_id \in BorrowerIds, days \in LoanDays :
        BorrowSelect(p, book_id, borrower_id, days)
ReturnInvoke(p) == \E transaction_id \in TxnIds : ReturnSelect(p, transaction_id)

\* concurrent borrow_book and return_book calls, interleaved request by request
NextConc ==
    \/ AddBookCall
    \/ \E p \in Procs : Ready(p) /\ BorrowInvoke(p)
    \/ \E p \in Procs : Ready(p) /\ ReturnInvoke(p)
    \/ \E p \in Procs : BorrowStep(p)
    \/ \E p \in Procs : ReturnStep(p)

SpecConc == Init /\ [][NextConc]_vars

\* one borrow_book call per caller, all invoked after the books were added
NextBorrowRace ==
    \/ (\A p \in Procs : Fresh(p)) /\ AddBookCall
    \/ \E p \in Procs : Fresh(p) /\ BorrowInvoke(p)
    \/ \E p \in Procs : BorrowStep(p)

SpecBorrowRace == Init /\ [][NextBorrowRace]_vars

\* books added and borrowed one call at a time, then one return_book call per caller
NextReturnRace ==
    \/ (\A p \in Procs : Fresh(p)) /\ AddBookCall
    \/ (\A p \in Procs : Fresh(p)) /\ BorrowBookCall
    \/ \E p \in Procs : Fresh(p) /\ ReturnInvoke(p)
    \/ \E p \in Procs : ReturnStep(p)

SpecReturnRace == Init /\ [][NextReturnRace]_vars

\* ================================================================ properties
InFlight(p) == calls[p].pc \notin {"idle", "done"}
Min(a, b) == IF a <= b THEN a ELSE b
Loans(b) == {i \in DOMAIN transactions : transactions[i].book_id = b}

\* C1: when add_book (copies >= 0), borrow_book and return_book run one call at a
\* time, every book has 0 <= available <= copies after every call.
C1_AvailableWithinCopies ==
    \A b \in DOMAIN books :
        0 <= books[b].available /\ books[b].available <= books[b].copies

\* a copy was borrowed and returned: available is back at copies
C1_Witness ==
    /\ ret.op = "return_book" /\ ret.ok
    /\ ret.book_id \in DOMAIN books
    /\ books[ret.book_id].copies >= 1
    /\ books[ret.book_id].available = books[ret.book_id].copies

\* C2: N >= 2 borrow_book calls on one book with available = 1 (copies = 1, no call
\* before them), interleaved request by request: once all have returned, exactly
\* one returned success, the others returned "No copies available", exactly one
\* transaction on the book exists, and available is 0.
C2_ExactlyOneBorrowSucceeds ==
    \A b \in DOMAIN books :
        LET S == {p \in Procs : calls[p].op = "borrow_book" /\ calls[p].book_id = b} IN
        (/\ books[b].copies = 1
         /\ Cardinality(S) >= 2
         /\ \A p \in S : calls[p].pc = "done")
        => /\ Cardinality({p \in S : calls[p].ok}) = 1
           /\ \A p \in S : ~calls[p].ok => calls[p].msg = MsgNoCopies
           /\ Cardinality(Loans(b)) = 1
           /\ books[b].available = 0

\* C3: two or more return_book calls on one open transaction, interleaved request
\* by request: once all have returned, exactly one returned success, the others
\* returned failure, and the book's available was incremented exactly once (with
\* no other call in flight and the book's other loans open, available is
\* copies - loans + 1).
C3_ExactlyOneReturnSucceeds ==
    \A i \in DOMAIN transactions :
        LET S == {p \in Procs :
                    calls[p].op = "return_book" /\ calls[p].transaction_id = i}
            b == transactions[i].book_id
        IN
        (/\ Cardinality(S) >= 2
         /\ \A p \in Procs : ~InFlight(p))
        => /\ Cardinality({p \in S : calls[p].ok}) = 1
           /\ (\A j \in Loans(b) \ {i} : transactions[j].return_date = NULL)
                  => books[b].available
                         = books[b].copies - Cardinality(Loans(b)) + 1

\* C4: under any interleaving of borrow_book and return_book calls, request by
\* request, no book's available exceeds its copies.
C4_AvailableAtMostCopies ==
    \A b \in DOMAIN books : books[b].available <= books[b].copies

\* C5: under any interleaving of borrow_book and return_book calls, request by
\* request, no book's available is negative.
C5_AvailableNonNegative ==
    \A b \in DOMAIN books : books[b].available >= 0

\* two borrow_book calls raced for the last copy and both returned success
C5_Witness ==
    \E p, q \in Procs :
        /\ p # q
        /\ calls[p].op = "borrow_book" /\ calls[p].pc = "done" /\ calls[p].ok
        /\ calls[q].op = "borrow_book" /\ calls[q].pc = "done" /\ calls[q].ok
        /\ calls[p].book_id = calls[q].book_id
        /\ books[calls[p].book_id].copies = 1
        /\ books[calls[p].book_id].available = 0

\* C6: a borrow_book call on an existing book whose available is 0 returns failure
\* and changes no book and no transaction.
C6_BorrowWithoutCopiesFails ==
    [][(/\ ret'.op = "borrow_book"
        /\ ret'.book_id \in DOMAIN books
        /\ books[ret'.book_id].available = 0)
       => (/\ ~ret'.ok
           /\ books' = books
           /\ transactions' = transactions)]_vars

\* the last copy is out and a further borrow_book of the book was refused
C6_Witness ==
    /\ ret.op = "borrow_book" /\ ~ret.ok
    /\ ret.book_id \in DOMAIN books
    /\ books[ret.book_id].copies >= 1
    /\ books[ret.book_id].available = 0

\* C7: a return_book call on a transaction whose return_date is set returns failure
\* and leaves the transactions and every book unchanged (calls run one at a time).
C7_ReturnOfClosedFails ==
    [][(/\ ret'.op = "return_book"
        /\ ret'.transaction_id \in DOMAIN transactions
        /\ transactions[ret'.transaction_id].return_date # NULL)
       => (/\ ~ret'.ok
           /\ transactions' = transactions
           /\ books' = books)]_vars

\* a returned transaction was returned again and the call was refused
C7_Witness ==
    /\ ret.op = "return_book" /\ ~ret.ok
    /\ ret.transaction_id \in DOMAIN transactions
    /\ transactions[ret.transaction_id].return_date # NULL

\* C8: a transaction closes at most once and for good: no step writes the
\* return_date of a transaction whose return_date is set, a set return_date never
\* changes, and no transaction is ever deleted.
C8_ClosesOnceIrreversibly ==
    [][/\ Len(transactions') >= Len(transactions)
       /\ \A i \in DOMAIN transactions :
            /\ transactions'[i].book_id = transactions[i].book_id
            /\ transactions'[i].borrow_date = transactions[i].borrow_date
            /\ transactions[i].return_date # NULL
                   => transactions'[i].return_date = transactions[i].return_date
       /\ \A p \in Procs :
            (calls[p].pc = "set_return_date" /\ calls'[p].pc = "select_book")
                => transactions[calls[p].transaction_id].return_date = NULL]_vars

\* C9: a return_book call that succeeds on an open transaction sets its return_date
\* and leaves the book's available at min(available + 1, copies), also after
\* update_book has changed copies or available while the transaction was open.
C9_ReturnCapsAtCopies ==
    [][(/\ ret'.op = "return_book" /\ ret'.ok
        /\ ret'.book_id \in DOMAIN books)
       => (/\ transactions'[ret'.transaction_id].return_date # NULL
           /\ books'[ret'.book_id].available
                  = Min(books[ret'.book_id].available + 1,
                        books[ret'.book_id].copies))]_vars

\* C10: a borrow_book call that succeeds (run as a whole) decrements the book's
\* available by 1 and appends one open transaction for the given book and
\* borrower with due_date = borrow_date + days (in ticks); every other book and every
\* earlier transaction is unchanged.
C10_BorrowEffect ==
    [][(ret'.op = "borrow_book" /\ ret'.ok)
       => (/\ ret'.book_id \in DOMAIN books
           /\ books' = [books EXCEPT ![ret'.book_id].available = @ - 1]
           /\ Len(transactions') = Len(transactions) + 1
           /\ SubSeq(transactions', 1, Len(transactions)) = transactions
           /\ LET row == transactions'[Len(transactions')] IN
              /\ row.book_id = ret'.book_id
              /\ row.borrower_id = ret'.borrower_id
              /\ row.return_date = NULL
              /\ row.due_date = row.borrow_date + ret'.days * TicksPerDay)]_vars

\* C11: borrow_book fails whenever book_id is no existing book or borrower_id is no
\* existing borrower, with an outcome other than the no-copies failure, and then
\* creates no transaction and changes no availability.
C11_InvalidReferenceRefused ==
    [][(/\ ret'.op = "borrow_book"
        /\ (ret'.book_id \notin DOMAIN books \/ ret'.borrower_id \notin borrowers))
       => (/\ ~ret'.ok
           /\ ret'.msg # MsgNoCopies
           /\ transactions' = transactions
           /\ books' = books)]_vars

\* C12: add_book with copies >= 0 creates exactly one new book, under an id no book
\* had, with available = copies; add_book with negative copies fails and creates
\* no book.
C12_AddBookValidatesCopies ==
    [][ret'.op = "add_book"
       => IF ret'.copies >= 0
          THEN /\ ret'.ok
               /\ ret'.book_id \notin DOMAIN books
               /\ DOMAIN books' = DOMAIN books \cup {ret'.book_id}
               /\ books'[ret'.book_id] = [copies |-> ret'.copies, available |-> ret'.copies]
               /\ \A b \in DOMAIN books : books'[b] = books[b]
          ELSE /\ ~ret'.ok
               /\ books' = books]_vars

\* C13: delete_book on an absent id returns failure and changes nothing; on an
\* existing id it removes exactly that book and leaves every transaction, every
\* review and every other book as it was, open transactions on the book included.
C13_DeleteRemovesOneBook ==
    [][ret'.op = "delete_book"
       => /\ transactions' = transactions
          /\ reviews' = reviews
          /\ IF ret'.book_id \in DOMAIN books
             THEN /\ ret'.ok
                  /\ DOMAIN books' = DOMAIN books \ {ret'.book_id}
                  /\ \A b \in DOMAIN books' : books'[b] = books[b]
             ELSE /\ ~ret'.ok
                  /\ books' = books]_vars

\* a book was deleted while an open transaction and a review refer to it, and another
\* book is in the catalog
C13_Witness ==
    /\ ret.op = "delete_book"
    /\ ret.ok
    /\ ret.book_id \notin DOMAIN books
    /\ DOMAIN books # {}
    /\ \E i \in DOMAIN transactions :
           transactions[i].book_id = ret.book_id /\ transactions[i].return_date = NULL
    /\ \E i \in DOMAIN reviews : reviews[i].book_id = ret.book_id

\* C14: after any sequence of borrow_book and return_book calls,
\* get_active_transactions returns exactly the transactions whose return timestamp
\* is unset: every open one, once, and no closed one.
C14_ActiveAreTheOpenOnes ==
    ret.op = "get_active_transactions"
    => /\ \A i \in DOMAIN transactions :
              transactions[i].return_date = NULL
              <=> \E k \in DOMAIN ret.data : ret.data[k].id = i
       /\ \A k \in DOMAIN ret.data :
              /\ ret.data[k].id \in DOMAIN transactions
              /\ ret.data[k].book_id = transactions[ret.data[k].id].book_id
              /\ \A j \in DOMAIN ret.data : ret.data[j].id = ret.data[k].id => j = k

\* the query answered with an open transaction while a closed one is stored
C14_Witness ==
    /\ ret.op = "get_active_transactions"
    /\ Len(ret.data) = 1
    /\ \E i \in DOMAIN transactions : transactions[i].return_date # NULL

\* C15: add_review with a book_id that is no existing book fails with an
\* invalid-reference outcome and stores no review.
C15_ReviewOfUnknownBookRefused ==
    [][(ret'.op = "add_review" /\ ret'.book_id \notin DOMAIN books)
       => (~ret'.ok /\ reviews' = reviews)]_vars

\* C18: the label add_review stores is a function of the compound score alone,
\* in hundredths: "positive" iff compound > 0.05, "negative" iff compound < -0.05,
\* "neutral" otherwise; 0.05 and -0.05 themselves are "neutral"; one label per score.
C18_LabelByThresholds ==
    \A i \in DOMAIN reviews :
        LET r == reviews[i] IN
        /\ r.sentiment \in {"positive", "negative", "neutral"}
        /\ r.sentiment = "positive" <=> r.compound > PositiveAbove
        /\ r.sentiment = "negative" <=> r.compound < NegativeBelow
        /\ r.sentiment = "neutral" <=> r.compound \in NegativeBelow..PositiveAbove
        /\ \A j \in DOMAIN reviews :
               reviews[j].compound = r.compound => reviews[j].sentiment = r.sentiment

\* a review whose score is exactly a threshold has been stored
C18_Witness ==
    \E i \in DOMAIN reviews :
        /\ reviews[i].compound \in {NegativeBelow, PositiveAbove}
        /\ reviews[i].sentiment = "neutral"
        /\ ret.op = "add_review"

\* open transactions on book b
OpenLoans(b) ==
    Cardinality({i \in DOMAIN transactions :
        transactions[i].book_id = b /\ transactions[i].return_date = NULL})

\* C19: with add_book (copies >= 0), borrow_book and return_book run one at a time,
\* no storage failure, no update_book or delete_book: for every book, available
\* plus the number of open transactions on it equals copies after every call.
C19_CopiesConserved ==
    \A b \in DOMAIN books : books[b].available + OpenLoans(b) = books[b].copies

\* a book with a copy out and, before that, a copy returned
C19_Witness ==
    \E b \in DOMAIN books :
        /\ OpenLoans(b) > 0
        /\ \E i \in DOMAIN transactions :
               transactions[i].book_id = b /\ transactions[i].return_date # NULL

\* the similarity search_books computes for the book in row i of the catalog
Score(i) ==
    Similarity(TokenSet(search.query),
               TokenSet(CombinedText(search.catalog[i], search.search_type)))

\* the ids returned are those of the books with similarity > 0, each once
OnlyMatchesEachOnce ==
    /\ \A i \in DOMAIN search.catalog :
           Score(i)[1] > 0 <=> \E k \in DOMAIN search.results : search.results[k] = i
    /\ \A k \in DOMAIN search.results :
           /\ search.results[k] \in DOMAIN search.catalog
           /\ \A j \in DOMAIN search.results : search.results[j] = search.results[k] => j = k

\* C17 as stated: search_books returns only ids of books with Jaccard similarity > 0,
\* each such book exactly once, and the scores of the returned sequence are
\* strictly descending.
C17_StrictlyDescending ==
    search.called
    => /\ OnlyMatchesEachOnce
       /\ \A k \in 1..(Len(search.results) - 1) :
              Greater(Score(search.results[k]), Score(search.results[k + 1]))

\* C17 amended: search_books returns only ids of books with Jaccard similarity > 0,
\* each such book exactly once, and the scores of the returned sequence never
\* increase; books of equal score come in the order of the catalog rows.
C17_Descending ==
    search.called
    => /\ OnlyMatchesEachOnce
       /\ \A k \in 1..(Len(search.results) - 1) :
              LET a == search.results[k]
                  b == search.results[k + 1]
              IN /\ ~Greater(Score(b), Score(a))
                 /\ ~Greater(Score(a), Score(b)) => a < b

\* a search that returned two books, the later row first
C17_Witness ==
    /\ search.called
    /\ Len(search.results) > 1
    /\ search.results[1] > search.results[2]
    /\ Greater(Score(search.results[1]), Score(search.results[2]))

\* the value each operation returns from its except branch
ErrorResult(r) ==
    /\ ~r.ok
    /\ r.op = "add_book" => r.book_id = NULL
    /\ r.op = "borrow_book" => r.msg = MsgBorrowError
    /\ r.op = "return_book" => r.msg = MsgReturnError
    /\ r.op = "add_review" => r.msg = MsgReviewError

\* C16: whenever a storage request inside add_book, update_book, delete_book,
\* borrow_book, return_book or add_review fails, the operation returns a failure
\* result (False or None, with a message for borrow, return and add_review) and
\* the exception does not leave the operation.
C16_StorageFailureIsReturned ==
    ret.failed # 0 => (~ret.raised /\ ErrorResult(ret))

\* a request after the first one failed: the availability update of borrow_book
C16_Witness ==
    /\ ret.op = "borrow_book"
    /\ ret.failed = 3
    /\ ret.msg = MsgBorrowError

\* C20: a borrow_book or return_book call that returns a failure result has left
\* books and transactions exactly as they were before the call, also when the
\* failure is a storage error on any one of the call's requests.
C20_FailureChangesNothing ==
    [][(ret'.op \in {"borrow_book", "return_book"} /\ ~ret'.ok)
       => (books' = books /\ transactions' = transactions)]_vars

\* C21: return_book on an open transaction whose book has been deleted returns
\* success, sets that transaction's return timestamp, and neither re-creates the
\* deleted book nor changes the available of any other book.
C21_ReturnAfterDelete ==
    [][(/\ ret'.op = "return_book"
        /\ ret'.transaction_id \in DOMAIN transactions
        /\ transactions[ret'.transaction_id].return_date = NULL
        /\ transactions[ret'.transaction_id].book_id \notin DOMAIN books)
       => (/\ ret'.ok
           /\ ret'.msg = MsgReturned
           /\ DOMAIN transactions' = DOMAIN transactions
           /\ transactions'[ret'.transaction_id].return_date # NULL
           /\ \A i \in DOMAIN transactions \ {ret'.transaction_id} :
                  transactions'[i] = transactions[i]
           /\ books' = books)]_vars

\* a transaction on a deleted book has been returned while another book is in the catalog
C21_Witness ==
    /\ ret.op = "return_book"
    /\ ret.ok
    /\ ret.book_id \notin DOMAIN books
    /\ DOMAIN books # {}
    /\ transactions[ret.transaction_id].return_date # NULL

====
